---- MODULE Spec2Model ----
(***************************************************************************)
(* A model of the liquidity pool of src/src/main.rs: the LpPool struct,    *)
(* its constructor init and its three operations add_liquidity,            *)
(* remove_liquidity and swap, with the fee curve calculate_fee_percentage. *)
(*                                                                         *)
(* All quantities are u64 in the source.  The model's inputs are far below *)
(* 2^64, so additions and multiplications never leave the u64 range; the   *)
(* one u64 operation that can leave it on small values is the subtraction  *)
(* token_amount - fee at the end of swap, which is modelled with both      *)
(* outcomes a build can produce (see swap).                                *)
(***************************************************************************)
EXTENDS Integers, Sequences, FiniteSets, TLC

\* ------------------------------------------------------------------ bounds

\* Largest amount a caller passes to add_liquidity, remove_liquidity or swap.
MaxAmount == 3

\* Runs are cut where a reserve would pass MaxReserve or the supply MaxSupply.
MaxReserve == 6

MaxSupply == 12

Amounts == 0 .. MaxAmount

\* Arguments tried for init: each set holds 0 (rejected) and valid values.
Prices == {0, 1, 2}

FeeMins == {0, 1, 2}

FeeMaxs == {0, 1, 101}

Targets == {0, 4}

\* ------------------------------------------------------------------- state

VARIABLES
    status,                 \* "none": no pool yet; "live"; "panicked": a call panicked
    token_reserve,          \* LpPool.token_reserve
    staked_token_reserve,   \* LpPool.staked_token_reserve
    lp_token_supply,        \* LpPool.lp_token_supply
    price,                  \* LpPool.price
    fee_min,                \* LpPool.fee_min
    fee_max,                \* LpPool.fee_max
    liquidity_target,       \* LpPool.liquidity_target
    call,                   \* the last call: [op, args]
    ret,                    \* what the last call returned
    pre,                    \* the pool's fields as the last call found them
    prev                    \* call, ret and pre of the call before the last one,
                            \* kept only by the callers that compare two calls

vars == <<status, token_reserve, staked_token_reserve, lp_token_supply, price,
          fee_min, fee_max, liquidity_target, call, ret, pre, prev>>

\* The seven fields of struct LpPool.
LpPool ==
    [token_reserve        |-> token_reserve,
     staked_token_reserve |-> staked_token_reserve,
     lp_token_supply      |-> lp_token_supply,
     price                |-> price,
     fee_min              |-> fee_min,
     fee_max              |-> fee_max,
     liquidity_target     |-> liquidity_target]

\* enum Errors
Errors == {"PropertyMustBeGreaterThanZero", "FeeMaxMustBeGreaterThanFeeMin",
           "InsufficientLiquidity"}

\* Result values.  A returned u64 is v1 + wrap * 2^64 (2^64 itself is beyond
\* TLC's 32-bit integers): wrap is 1 only for a subtraction that wrapped
\* around, and v1 is then the negative difference.  v2 is the second component
\* of remove_liquidity's pair.
Ok(a, b) == [kind |-> "Ok", err |-> "", v1 |-> a, v2 |-> b, wrap |-> 0]

OkWrapped(a) == [kind |-> "Ok", err |-> "", v1 |-> a, v2 |-> 0, wrap |-> 1]

Err(e) == [kind |-> "Err", err |-> e, v1 |-> 0, v2 |-> 0, wrap |-> 0]

Panic == [kind |-> "Panic", err |-> "", v1 |-> 0, v2 |-> 0, wrap |-> 0]

NoRet == [kind |-> "None", err |-> "", v1 |-> 0, v2 |-> 0, wrap |-> 0]

Init ==
    /\ status = "none"
    /\ token_reserve = 0
    /\ staked_token_reserve = 0
    /\ lp_token_supply = 0
    /\ price = 0
    /\ fee_min = 0
    /\ fee_max = 0
    /\ liquidity_target = 0
    /\ call = [op |-> "none", args |-> <<>>]
    /\ ret = NoRet
    /\ pre = LpPool
    /\ prev = [call |-> call, ret |-> ret, pre |-> pre]

\* --------------------------------------------------------------- LpPool::init

\* InitCheck with the two checks in the other order.
InitCheckFeesFirst(p, fmin, fmax, target) ==
    IF fmin >= fmax
    THEN "FeeMaxMustBeGreaterThanFeeMin"
    ELSE IF p = 0 \/ fmin = 0 \/ fmax = 0 \/ target = 0
         THEN "PropertyMustBeGreaterThanZero"
         ELSE "Ok"

\* The checks of init, in the order the code makes them.
InitCheck(p, fmin, fmax, target) ==
    IF p = 0 \/ fmin = 0 \/ fmax = 0 \/ target = 0
    THEN "PropertyMustBeGreaterThanZero"
    ELSE IF fmin >= fmax
         THEN "FeeMaxMustBeGreaterThanFeeMin"
         ELSE "Ok"

init(p, fmin, fmax, target) ==
    /\ status = "none"
    /\ call' = [op |-> "init", args |-> <<p, fmin, fmax, target>>]
    /\ pre' = LpPool
    /\ IF InitCheck(p, fmin, fmax, target) # "Ok"
       THEN /\ ret' = Err(InitCheck(p, fmin, fmax, target))
            /\ UNCHANGED <<status, token_reserve, staked_token_reserve,
                           lp_token_supply, price, fee_min, fee_max,
                           liquidity_target>>
       ELSE /\ status' = "live"
            /\ token_reserve' = 0
            /\ staked_token_reserve' = 0
            /\ lp_token_supply' = 0
            /\ price' = p
            /\ fee_min' = fmin
            /\ fee_max' = fmax
            /\ liquidity_target' = target
            /\ ret' = Ok(0, 0)

\* ------------------------------------------------------- f64 arithmetic
\* add_liquidity and remove_liquidity compute in f64 (IEEE 754 binary64: 53
\* significant bits, round to nearest, ties to even) and cast back with
\* `as u64`, which truncates.  Every u64 of the model is below 2^23 and is
\* converted to f64 exactly.  A 53-bit significand is beyond TLC's 32-bit
\* integers, so each rounding is computed from remainders instead.

RECURSIVE Pow2(_)
Pow2(k) == IF k = 0 THEN 1 ELSE 2 * Pow2(k - 1)

\* 2^k mod m
RECURSIVE PowMod2(_, _)
PowMod2(k, m) == IF k = 0 THEN 1 % m ELSE (2 * PowMod2(k - 1, m)) % m

\* The binary exponent of n / d (n, d >= 1): the e with 2^e <= n / d < 2^(e+1).
RECURSIVE Log2Floor(_, _)
Log2Floor(n, d) ==
    IF n >= 2 * d THEN 1 + Log2Floor(n, 2 * d)
    ELSE IF n < d THEN Log2Floor(2 * n, d) - 1
    ELSE 0

\* The e with 2^e < q <= 2^(e+1) (q >= 1): the binary exponent of the f64
\* values just below q.
RECURSIVE Log2Below(_)
Log2Below(q) == IF q = 1 THEN 0 - 1 ELSE 1 + Log2Below((q + 1) \div 2)

\* `s as f64 / r as f64` (s, r >= 1).  With e the exponent of s / r and
\* k = 52 - e, the quotient is rounded to a multiple of 2^(-k); the result is
\* the rounding error in units of 1 / (r * 2^k):
\*     f64(s / r) = s / r - F64DivErr(s, r) / (r * 2^k),
\* positive when the quotient was rounded down, negative when rounded up.
F64DivErr(s, r) ==
    LET k   == 52 - Log2Floor(s, r)
        rho == ((s % r) * PowMod2(k, r)) % r
        \* the significand when rounded down, modulo 2 (for a tie)
        low == ((((s % (2 * r)) * PowMod2(k, 2 * r)) % (2 * r)) - rho) \div r
    IN  IF 2 * rho < r THEN rho
        ELSE IF 2 * rho > r THEN rho - r
        ELSE IF low % 2 = 0 THEN rho
        ELSE rho - r

\* `(a as f64 * (s as f64 / r as f64)) as u64` (a, r >= 1).
\* The exact product of a and the rounded quotient is
\*     a * s / r - a * F64DivErr(s, r) / (r * 2^k).
\* It is rounded to f64 and truncated.  When r does not divide a * s the
\* product is at least 1 / r away from every integer, far more than the two
\* roundings move it, and the truncation is the integer quotient.  When r
\* divides a * s, the product lies below the integer q = a * s / r exactly
\* when the quotient was rounded down; the multiplication rounds it back up
\* to q only if it lies within half a unit in the last place, 2^(E - 53)
\* with E = Log2Below(q), of q; otherwise the cast yields q - 1.
F64MulDivTrunc(a, s, r) ==
    IF s = 0 THEN 0
    ELSE
    LET q   == (a * s) \div r
        rem == (a * s) % r
        err == F64DivErr(s, r)
        e   == Log2Floor(s, r)
        E   == Log2Below(q)
        m   == IF e < E THEN e ELSE E
    IN  IF rem # 0 THEN q
        ELSE IF err <= 0 THEN q
        \* a * err / (r * 2^(52 - e)) > 2^(E - 53)
        ELSE IF 2 * a * err * Pow2(e - m) > r * Pow2(E - m) THEN q - 1
        ELSE q

\* F64DivTrunc with a quotient that lands just below an exact integer.
F64DivBelow(n, d) == IF d = 0 \/ n = 0 THEN 0 ELSE (n - 1) \div d

\* F64DivTrunc with a cast that rounds to the nearest integer.
F64DivRound(n, d) == IF d = 0 THEN 0 ELSE (2 * n + d) \div (2 * d)

\* `(n as f64 / d as f64) as u64`.  One correctly rounded division:
\* an integer quotient is exact, and any other quotient is at least 1 / d from
\* the next integer, which a rounding of relative size 2^(-53) cannot reach
\* for n, d < 2^23.  The cast truncates.  0.0 / 0.0 is NaN, which the cast
\* turns into 0 (a positive n over d = 0 is excluded by the caller's check
\* of lp_token_amount against lp_token_supply).
F64DivTrunc(n, d) == IF d = 0 THEN 0 ELSE n \div d

\* ------------------------------------------------- LpPool::add_liquidity

\* LiquidityMinted without the branch for an empty pool.
LiquidityMintedRatioOnly(amount, supply, reserve) ==
    F64MulDivTrunc(amount, supply, reserve)

\* let liquidity_minted = if self.lp_token_supply == 0 { amount } else { .. },
\* with reserve the token_reserve already increased by amount.
LiquidityMinted(amount, supply, reserve) ==
    IF supply = 0 THEN amount ELSE F64MulDivTrunc(amount, supply, reserve)

add_liquidity(amount) ==
    /\ status = "live"
    /\ call' = [op |-> "add_liquidity", args |-> <<amount>>]
    /\ pre' = LpPool
    /\ UNCHANGED <<status, staked_token_reserve, price, fee_min, fee_max,
                   liquidity_target>>
    /\ IF amount = 0
       THEN /\ ret' = Err("PropertyMustBeGreaterThanZero")
            /\ UNCHANGED <<token_reserve, lp_token_supply>>
       ELSE LET reserve == token_reserve + amount
                liquidity_minted ==
                    LiquidityMinted(amount, lp_token_supply, reserve)
            IN  /\ token_reserve' = reserve
                /\ lp_token_supply' = lp_token_supply + liquidity_minted
                /\ ret' = Ok(liquidity_minted, 0)

\* ---------------------------------------------- LpPool::remove_liquidity

\* remove_liquidity without its first check.
remove_liquidity_no_zero_check(lp_token_amount) ==
    /\ status = "live"
    /\ call' = [op |-> "remove_liquidity", args |-> <<lp_token_amount>>]
    /\ pre' = LpPool
    /\ UNCHANGED <<status, price, fee_min, fee_max, liquidity_target>>
    /\ IF lp_token_amount > lp_token_supply
       THEN /\ ret' = Err("InsufficientLiquidity")
            /\ UNCHANGED <<token_reserve, staked_token_reserve, lp_token_supply>>
       ELSE LET token_amount ==
                    F64DivTrunc(lp_token_amount * token_reserve, lp_token_supply)
                staked_token_amount ==
                    F64DivTrunc(lp_token_amount * staked_token_reserve,
                                lp_token_supply)
            IN  IF \/ token_amount > token_reserve
                   \/ staked_token_amount > staked_token_reserve
                THEN /\ ret' = Err("InsufficientLiquidity")
                     /\ UNCHANGED <<token_reserve, staked_token_reserve,
                                    lp_token_supply>>
                ELSE /\ token_reserve' = token_reserve - token_amount
                     /\ staked_token_reserve' =
                            staked_token_reserve - staked_token_amount
                     /\ lp_token_supply' = lp_token_supply - lp_token_amount
                     /\ ret' = Ok(token_amount, staked_token_amount)

\* remove_liquidity refusing the withdrawal of the whole supply.
remove_liquidity_ge(lp_token_amount) ==
    /\ status = "live"
    /\ call' = [op |-> "remove_liquidity", args |-> <<lp_token_amount>>]
    /\ pre' = LpPool
    /\ UNCHANGED <<status, price, fee_min, fee_max, liquidity_target>>
    /\ IF lp_token_amount = 0
       THEN /\ ret' = Err("PropertyMustBeGreaterThanZero")
            /\ UNCHANGED <<token_reserve, staked_token_reserve, lp_token_supply>>
       ELSE IF lp_token_amount >= lp_token_supply
       THEN /\ ret' = Err("InsufficientLiquidity")
            /\ UNCHANGED <<token_reserve, staked_token_reserve, lp_token_supply>>
       ELSE LET token_amount ==
                    F64DivTrunc(lp_token_amount * token_reserve, lp_token_supply)
                staked_token_amount ==
                    F64DivTrunc(lp_token_amount * staked_token_reserve,
                                lp_token_supply)
            IN  IF \/ token_amount > token_reserve
                   \/ staked_token_amount > staked_token_reserve
                THEN /\ ret' = Err("InsufficientLiquidity")
                     /\ UNCHANGED <<token_reserve, staked_token_reserve,
                                    lp_token_supply>>
                ELSE /\ token_reserve' = token_reserve - token_amount
                     /\ staked_token_reserve' =
                            staked_token_reserve - staked_token_amount
                     /\ lp_token_supply' = lp_token_supply - lp_token_amount
                     /\ ret' = Ok(token_amount, staked_token_amount)

remove_liquidity(lp_token_amount) ==
    /\ status = "live"
    /\ call' = [op |-> "remove_liquidity", args |-> <<lp_token_amount>>]
    /\ pre' = LpPool
    /\ UNCHANGED <<status, price, fee_min, fee_max, liquidity_target>>
    /\ IF lp_token_amount = 0
       THEN /\ ret' = Err("PropertyMustBeGreaterThanZero")
            /\ UNCHANGED <<token_reserve, staked_token_reserve, lp_token_supply>>
       ELSE IF lp_token_amount > lp_token_supply
       THEN /\ ret' = Err("InsufficientLiquidity")
            /\ UNCHANGED <<token_reserve, staked_token_reserve, lp_token_supply>>
       ELSE LET token_amount ==
                    F64DivTrunc(lp_token_amount * token_reserve, lp_token_supply)
                staked_token_amount ==
                    F64DivTrunc(lp_token_amount * staked_token_reserve,
                                lp_token_supply)
            IN  IF \/ token_amount > token_reserve
                   \/ staked_token_amount > staked_token_reserve
                THEN /\ ret' = Err("InsufficientLiquidity")
                     /\ UNCHANGED <<token_reserve, staked_token_reserve,
                                    lp_token_supply>>
                ELSE /\ token_reserve' = token_reserve - token_amount
                     /\ staked_token_reserve' =
                            staked_token_reserve - staked_token_amount
                     /\ lp_token_supply' = lp_token_supply - lp_token_amount
                     /\ ret' = Ok(token_amount, staked_token_amount)

\* ------------------------------------- LpPool::calculate_fee_percentage

\* calculate_fee_percentage with the two divisions collapsed into one.
calculate_fee_percentage_single_floor(reserve, target, fmin, fmax) ==
    fmin + ((reserve * 100 * (fmax - fmin)) \div (target * 100))

\* calculate_fee_percentage rising from fee_max instead of fee_min.
calculate_fee_percentage_from_max(reserve, target, fmin, fmax) ==
    LET liquidity_ratio == (reserve * 100) \div target
    IN  fmax + ((liquidity_ratio * (fmax - fmin)) \div 100)

calculate_fee_percentage(reserve, target, fmin, fmax) ==
    LET liquidity_ratio == (reserve * 100) \div target
    IN  fmin + ((liquidity_ratio * (fmax - fmin)) \div 100)

\* A direct call of the method, as the tests make it: the pool is unchanged.
call_calculate_fee_percentage ==
    /\ status = "live"
    /\ call' = [op |-> "calculate_fee_percentage", args |-> <<>>]
    /\ pre' = LpPool
    /\ ret' = Ok(calculate_fee_percentage(token_reserve, liquidity_target,
                                          fee_min, fee_max), 0)
    /\ UNCHANGED <<status, token_reserve, staked_token_reserve, lp_token_supply,
                   price, fee_min, fee_max, liquidity_target>>

\* ------------------------------------------------------------ LpPool::swap
\* The state is updated before `token_amount - fee` is evaluated.  When fee
\* exceeds token_amount the u64 subtraction overflows: a build with overflow
\* checks (the debug profile) panics there, with the reserves already
\* changed, and a build without them (the release profile) returns the
\* difference wrapped around 2^64.

\* SwapInsufficient off by one.
SwapInsufficientOffByOne(token_amount, reserve) == token_amount > reserve + 1

\* if token_amount > self.token_reserve
SwapInsufficient(token_amount, reserve) == token_amount > reserve

\* swap debiting the reserve before it checks it.
swap_debit_before_check(staked_token_amount) ==
    /\ status = "live"
    /\ call' = [op |-> "swap", args |-> <<staked_token_amount>>]
    /\ pre' = LpPool
    /\ UNCHANGED <<lp_token_supply, price, fee_min, fee_max, liquidity_target>>
    /\ IF staked_token_amount = 0
       THEN /\ ret' = Err("PropertyMustBeGreaterThanZero")
            /\ UNCHANGED <<status, token_reserve, staked_token_reserve>>
       ELSE LET token_amount == staked_token_amount * price
                fee_percentage ==
                    calculate_fee_percentage(token_reserve, liquidity_target,
                                             fee_min, fee_max)
                fee == (token_amount * fee_percentage) \div 100
            IN  IF SwapInsufficient(token_amount, token_reserve)
                THEN /\ ret' = Err("InsufficientLiquidity")
                     /\ token_reserve' = token_reserve - token_amount
                     /\ UNCHANGED <<status, staked_token_reserve>>
                ELSE /\ token_reserve' = token_reserve - token_amount
                     /\ staked_token_reserve' =
                            staked_token_reserve + staked_token_amount
                     /\ IF fee <= token_amount
                        THEN /\ ret' = Ok(token_amount - fee, 0)
                             /\ UNCHANGED status
                        ELSE \/ /\ ret' = Panic
                                /\ status' = "panicked"
                             \/ /\ ret' = OkWrapped(token_amount - fee)
                                /\ UNCHANGED status

\* swap debiting the net amount instead of the gross amount.
swap_debit_net(staked_token_amount) ==
    /\ status = "live"
    /\ call' = [op |-> "swap", args |-> <<staked_token_amount>>]
    /\ pre' = LpPool
    /\ UNCHANGED <<lp_token_supply, price, fee_min, fee_max, liquidity_target>>
    /\ IF staked_token_amount = 0
       THEN /\ ret' = Err("PropertyMustBeGreaterThanZero")
            /\ UNCHANGED <<status, token_reserve, staked_token_reserve>>
       ELSE LET token_amount == staked_token_amount * price
                fee_percentage ==
                    calculate_fee_percentage(token_reserve, liquidity_target,
                                             fee_min, fee_max)
                fee == (token_amount * fee_percentage) \div 100
            IN  IF SwapInsufficient(token_amount, token_reserve)
                THEN /\ ret' = Err("InsufficientLiquidity")
                     /\ UNCHANGED <<status, token_reserve, staked_token_reserve>>
                ELSE /\ token_reserve' = token_reserve - (token_amount - fee)
                     /\ staked_token_reserve' =
                            staked_token_reserve + staked_token_amount
                     /\ IF fee <= token_amount
                        THEN /\ ret' = Ok(token_amount - fee, 0)
                             /\ UNCHANGED status
                        ELSE \/ /\ ret' = Panic
                                /\ status' = "panicked"
                             \/ /\ ret' = OkWrapped(token_amount - fee)
                                /\ UNCHANGED status

swap(staked_token_amount) ==
    /\ status = "live"
    /\ call' = [op |-> "swap", args |-> <<staked_token_amount>>]
    /\ pre' = LpPool
    /\ UNCHANGED <<lp_token_supply, price, fee_min, fee_max, liquidity_target>>
    /\ IF staked_token_amount = 0
       THEN /\ ret' = Err("PropertyMustBeGreaterThanZero")
            /\ UNCHANGED <<status, token_reserve, staked_token_reserve>>
       ELSE LET token_amount == staked_token_amount * price
                fee_percentage ==
                    calculate_fee_percentage(token_reserve, liquidity_target,
                                             fee_min, fee_max)
                fee == (token_amount * fee_percentage) \div 100
            IN  IF SwapInsufficient(token_amount, token_reserve)
                THEN /\ ret' = Err("InsufficientLiquidity")
                     /\ UNCHANGED <<status, token_reserve, staked_token_reserve>>
                ELSE /\ token_reserve' = token_reserve - token_amount
                     /\ staked_token_reserve' =
                            staked_token_reserve + staked_token_amount
                     /\ IF fee <= token_amount
                        THEN /\ ret' = Ok(token_amount - fee, 0)
                             /\ UNCHANGED status
                        ELSE \/ /\ ret' = Panic
                                /\ status' = "panicked"
                             \/ /\ ret' = OkWrapped(token_amount - fee)
                                /\ UNCHANGED status

\* ---------------------------------------------------------- specifications

\* The cut that keeps the state space finite.
Bounded(maxReserve, maxSupply) ==
    /\ token_reserve' <= maxReserve
    /\ staked_token_reserve' <= maxReserve
    /\ lp_token_supply' <= maxSupply

\* A caller constructs a pool, then issues any sequence of calls.
\* The caller may also withdraw the whole supply, whatever its size.
Next ==
    \/ \E p \in Prices, fmin \in FeeMins, fmax \in FeeMaxs, target \in Targets :
           init(p, fmin, fmax, target) /\ UNCHANGED prev
    \/ \E amount \in Amounts :
           add_liquidity(amount) /\ Bounded(MaxReserve, MaxSupply)
               /\ UNCHANGED prev
    \/ \E amount \in Amounts \cup {lp_token_supply} :
           remove_liquidity(amount) /\ Bounded(MaxReserve, MaxSupply)
               /\ UNCHANGED prev
    \/ \E amount \in Amounts :
           swap(amount) /\ Bounded(MaxReserve, MaxSupply) /\ UNCHANGED prev

Spec == Init /\ [][Next]_vars

\* The same pool under the configuration of the tests' scale (fee 1..2 per
\* cent, a target far above the reserves) and deposits large enough for the
\* two f64 roundings of add_liquidity to show.
F64MaxReserve == 15

F64MaxSupply == 30

F64Amounts == {0, 11, 15}

NextF64 ==
    \/ init(1, 1, 2, 1000) /\ UNCHANGED prev
    \/ \E amount \in F64Amounts :
           add_liquidity(amount) /\ Bounded(F64MaxReserve, F64MaxSupply)
               /\ UNCHANGED prev
    \/ \E amount \in F64Amounts :
           remove_liquidity(amount) /\ Bounded(F64MaxReserve, F64MaxSupply)
               /\ UNCHANGED prev
    \/ \E amount \in F64Amounts :
           swap(amount) /\ Bounded(F64MaxReserve, F64MaxSupply)
               /\ UNCHANGED prev

SpecF64 == Init /\ [][NextF64]_vars

\* The fee curve on its own, as the tests of calculate_fee_percentage call
\* it: on a pool written down field by field, with reserves below, at and
\* above the target.
FeeReserves == (0 .. 8) \cup {100, 1000}

FeeTargets == {1, 2, 3, 4, 500, 1000, 2000, 5000}

FeeBounds == {<<1, 2>>, <<1, 5>>, <<2, 5>>, <<1, 101>>, <<2, 101>>}

InitFee ==
    /\ status = "live"
    /\ token_reserve \in FeeReserves
    /\ staked_token_reserve = 0
    /\ lp_token_supply = token_reserve
    /\ price = 10
    /\ \E b \in FeeBounds : fee_min = b[1] /\ fee_max = b[2]
    /\ liquidity_target \in FeeTargets
    /\ call = [op |-> "none", args |-> <<>>]
    /\ ret = NoRet
    /\ pre = LpPool
    /\ prev = [call |-> call, ret |-> ret, pre |-> pre]

NextFee == call_calculate_fee_percentage /\ UNCHANGED prev

SpecFee == InitFee /\ [][NextFee]_vars

\* A caller that keeps the outcome of its previous call, to compare a
\* deposit with the withdrawal that follows it.  After a deposit it may
\* withdraw exactly the claim tokens minted.
Track == prev' = [call |-> call, ret |-> ret, pre |-> pre]

Minted == IF call.op = "add_liquidity" /\ ret.kind = "Ok" THEN ret.v1 ELSE 0

RTMaxReserve == 5

RTMaxSupply == 10

RTPrices == {1, 2}

NextRT ==
    \/ \E p \in RTPrices : init(p, 1, 101, 4) /\ Track
    \/ \E amount \in Amounts :
           add_liquidity(amount) /\ Bounded(RTMaxReserve, RTMaxSupply) /\ Track
    \/ \E amount \in Amounts \cup {lp_token_supply, Minted} :
           remove_liquidity(amount) /\ Bounded(RTMaxReserve, RTMaxSupply)
               /\ Track
    \/ \E amount \in Amounts :
           swap(amount) /\ Bounded(RTMaxReserve, RTMaxSupply) /\ Track

SpecRT == Init /\ [][NextRT]_vars

\* The same caller on a pool that is never swapped against.
NextLP ==
    \/ \E p \in RTPrices : init(p, 1, 101, 4) /\ Track
    \/ \E amount \in Amounts :
           add_liquidity(amount) /\ Bounded(RTMaxReserve, RTMaxSupply) /\ Track
    \/ \E amount \in Amounts \cup {lp_token_supply, Minted} :
           remove_liquidity(amount) /\ Bounded(RTMaxReserve, RTMaxSupply)
               /\ Track

SpecLP == Init /\ [][NextLP]_vars

\* ------------------------------------------------------------------ claims

\* The argument of the last add_liquidity, remove_liquidity or swap call.
Arg == call.args[1]

PoolOps == {"add_liquidity", "remove_liquidity", "swap"}

\* C1: in every state of a constructed pool, lp_token_supply is 0 exactly
\* when token_reserve and staked_token_reserve are both 0.
C1_SupplyZeroIffReservesZero ==
    status # "none" =>
        ((lp_token_supply = 0) <=>
            (token_reserve = 0 /\ staked_token_reserve = 0))

\* A withdrawal of the whole supply has emptied a pool that held both tokens.
C1_Witness ==
    /\ call.op = "remove_liquidity"
    /\ ret.kind = "Ok"
    /\ pre.token_reserve > 0
    /\ pre.staked_token_reserve > 0
    /\ lp_token_supply = 0

\* C2: whenever add_liquidity, remove_liquidity or swap returns an error, the
\* seven fields of the pool are what they were before the call.
C2_ErrorLeavesPoolUnchanged ==
    (call.op \in PoolOps /\ ret.kind = "Err") => LpPool = pre

\* A swap was refused for want of liquidity on a pool that holds tokens.
C2_Witness ==
    /\ call.op = "swap"
    /\ ret = Err("InsufficientLiquidity")
    /\ token_reserve > 0
    /\ lp_token_supply > 0

\* C3: a deposit of amount > 0 into a pool with lp_token_supply > 0 raises
\* token_reserve by amount, mints floor(amount * supply_before /
\* reserve_after), adds exactly that to lp_token_supply and returns it.
C3_MintIsFloor ==
    (call.op = "add_liquidity" /\ ret.kind = "Ok" /\ pre.lp_token_supply > 0) =>
        /\ token_reserve = pre.token_reserve + Arg
        /\ ret.v1 = (Arg * pre.lp_token_supply) \div token_reserve
        /\ lp_token_supply = pre.lp_token_supply + ret.v1

\* C4: a successful withdraw(lp_amount) returns the two floors
\* floor(lp_amount * reserve / supply) of the state before the call, lowers
\* each reserve by its amount and lp_token_supply by lp_amount.
C4_WithdrawProportional ==
    (call.op = "remove_liquidity" /\ ret.kind = "Ok") =>
        /\ ret.v1 = (Arg * pre.token_reserve) \div pre.lp_token_supply
        /\ ret.v2 = (Arg * pre.staked_token_reserve) \div pre.lp_token_supply
        /\ token_reserve = pre.token_reserve - ret.v1
        /\ staked_token_reserve = pre.staked_token_reserve - ret.v2
        /\ lp_token_supply = pre.lp_token_supply - Arg

\* A partial withdrawal paid out both tokens, one of them truncated.
C4_Witness ==
    /\ call.op = "remove_liquidity"
    /\ ret.kind = "Ok"
    /\ ret.v1 > 0
    /\ ret.v2 > 0
    /\ lp_token_supply > 0
    /\ (Arg * pre.token_reserve) % pre.lp_token_supply # 0

\* C5: a successful swap returns gross - floor(gross * fee_percentage / 100),
\* with gross = staked_amount * price and fee_percentage the fee curve on the
\* token_reserve of before the swap.
C5_SwapReturnsNet ==
    (call.op = "swap" /\ ret.kind = "Ok") =>
        LET gross == Arg * pre.price
            fee_percentage ==
                pre.fee_min +
                ((((pre.token_reserve * 100) \div pre.liquidity_target)
                    * (pre.fee_max - pre.fee_min)) \div 100)
        IN  /\ ret.wrap = 0
            /\ ret.v1 = gross - ((gross * fee_percentage) \div 100)

\* C6: a successful swap lowers token_reserve by staked_amount * price, raises
\* staked_token_reserve by staked_amount and leaves lp_token_supply, price,
\* fee_min, fee_max and liquidity_target as they were.
C6_SwapEffect ==
    (call.op = "swap" /\ ret.kind = "Ok") =>
        /\ token_reserve = pre.token_reserve - Arg * pre.price
        /\ staked_token_reserve = pre.staked_token_reserve + Arg
        /\ lp_token_supply = pre.lp_token_supply
        /\ price = pre.price
        /\ fee_min = pre.fee_min
        /\ fee_max = pre.fee_max
        /\ liquidity_target = pre.liquidity_target

\* A swap at price 2 kept a fee: the caller got less than the reserve lost.
C6_Witness ==
    /\ call.op = "swap"
    /\ ret.kind = "Ok"
    /\ ret.wrap = 0
    /\ pre.price = 2
    /\ ret.v1 > 0
    /\ ret.v1 < pre.token_reserve - token_reserve

\* C7: a successful withdraw takes no more from either reserve than it holds
\* and burns no more than lp_token_supply, and a swap that debits the reserve
\* takes no more than token_reserve holds: no state quantity goes below 0.
C7_NoStateUnderflow ==
    /\ (call.op = "remove_liquidity" /\ ret.kind = "Ok") =>
           /\ ret.v1 <= pre.token_reserve
           /\ ret.v2 <= pre.staked_token_reserve
           /\ Arg <= pre.lp_token_supply
    /\ (call.op = "swap" /\ ret.kind # "Err") =>
           Arg * pre.price <= pre.token_reserve
    /\ token_reserve >= 0
    /\ staked_token_reserve >= 0
    /\ lp_token_supply >= 0

\* A swap took exactly what the reserve held.
C7_Witness ==
    /\ call.op = "swap"
    /\ ret.kind = "Ok"
    /\ pre.token_reserve > 0
    /\ token_reserve = 0

\* C8: init returns PropertyMustBeGreaterThanZero exactly when an argument is
\* 0, FeeMaxMustBeGreaterThanFeeMin exactly when none is 0 and fee_min >=
\* fee_max, and otherwise a pool with reserves and supply 0 and the four
\* configuration values as given.
C8_InitResult ==
    call.op = "init" =>
        LET p      == call.args[1]
            fmin   == call.args[2]
            fmax   == call.args[3]
            target == call.args[4]
            zero   == p = 0 \/ fmin = 0 \/ fmax = 0 \/ target = 0
        IN  /\ (ret = Err("PropertyMustBeGreaterThanZero")) <=> zero
            /\ (ret = Err("FeeMaxMustBeGreaterThanFeeMin")) <=>
                   (~zero /\ fmin >= fmax)
            /\ (~zero /\ fmin < fmax) =>
                   /\ ret.kind = "Ok"
                   /\ status = "live"
                   /\ LpPool = [token_reserve        |-> 0,
                                staked_token_reserve |-> 0,
                                lp_token_supply      |-> 0,
                                price                |-> p,
                                fee_min              |-> fmin,
                                fee_max              |-> fmax,
                                liquidity_target     |-> target]
            /\ ret.kind # "Ok" => status = "none" /\ LpPool = pre

\* init was given a zero fee_max below a non-zero fee_min, and reported the
\* zero.
C8_Witness ==
    /\ call.op = "init"
    /\ call.args[3] = 0
    /\ call.args[2] > 0
    /\ call.args[1] > 0
    /\ call.args[4] > 0
    /\ ret = Err("PropertyMustBeGreaterThanZero")

\* C9: swap(0) fails with PropertyMustBeGreaterThanZero; swap of a positive
\* amount fails with InsufficientLiquidity exactly when staked_amount * price
\* exceeds token_reserve, and succeeds otherwise.
C9_SwapOutcome ==
    call.op = "swap" =>
        /\ Arg = 0 => ret = Err("PropertyMustBeGreaterThanZero")
        /\ Arg > 0 =>
               /\ (ret = Err("InsufficientLiquidity")) <=>
                      (Arg * pre.price > pre.token_reserve)
               /\ Arg * pre.price <= pre.token_reserve => ret.kind = "Ok"

\* C10: withdraw(0) fails with PropertyMustBeGreaterThanZero in every state,
\* and withdraw of more than lp_token_supply fails with InsufficientLiquidity
\* (so does every positive withdraw on an empty pool).
C10_WithdrawErrors ==
    call.op = "remove_liquidity" =>
        /\ Arg = 0 => ret = Err("PropertyMustBeGreaterThanZero")
        /\ Arg > pre.lp_token_supply => ret = Err("InsufficientLiquidity")

\* withdraw(0) was refused on a pool that holds both tokens.
C10_Witness ==
    /\ call.op = "remove_liquidity"
    /\ Arg = 0
    /\ ret = Err("PropertyMustBeGreaterThanZero")
    /\ pre.lp_token_supply > 0
    /\ pre.token_reserve > 0
    /\ pre.staked_token_reserve > 0

\* C11: the fee curve is fee_min + floor(floor(token_reserve * 100 /
\* liquidity_target) * (fee_max - fee_min) / 100); it is fee_min at
\* token_reserve 0 and wherever the inner ratio truncates to 0, and fee_max at
\* token_reserve = liquidity_target.
C11_FeeCurve ==
    call.op = "calculate_fee_percentage" =>
        LET ratio == (token_reserve * 100) \div liquidity_target
        IN  /\ ret.v1 = fee_min + ((ratio * (fee_max - fee_min)) \div 100)
            /\ token_reserve = 0 => ret.v1 = fee_min
            /\ token_reserve * 100 < liquidity_target => ret.v1 = fee_min
            /\ token_reserve = liquidity_target => ret.v1 = fee_max

\* The curve was evaluated where one division instead of two would give
\* another value: reserve 1 of target 3 between fees 2 and 5.
C11_Witness ==
    /\ call.op = "calculate_fee_percentage"
    /\ token_reserve = 1
    /\ liquidity_target = 3
    /\ fee_min = 2
    /\ fee_max = 5
    /\ ret.v1 = 2

\* The fee percentage the last swap computed, from the pool as it found it.
AppliedFee ==
    calculate_fee_percentage(pre.token_reserve, pre.liquidity_target,
                             pre.fee_min, pre.fee_max)

\* The last call was a swap that returned a net amount without overflow, and
\* the amount is the gross amount less the fee at AppliedFee per cent.
SwapPaid ==
    /\ call.op = "swap"
    /\ ret.kind = "Ok"
    /\ ret.wrap = 0
    /\ ret.v1 = Arg * pre.price - ((Arg * pre.price * AppliedFee) \div 100)

\* C12 as stated: the fee percentage a swap applies lies between fee_min and
\* fee_max, both included.
C12_FeeWithinBounds ==
    (call.op = "swap" /\ ret.kind = "Ok" /\ ret.wrap = 0) =>
        /\ SwapPaid
        /\ pre.fee_min <= AppliedFee
        /\ AppliedFee <= pre.fee_max

\* C12 as amended: the fee percentage a swap applies is at least fee_min, and
\* at most fee_max when token_reserve does not exceed liquidity_target.
C12_FeeBoundsUpToTarget ==
    (call.op = "swap" /\ ret.kind = "Ok" /\ ret.wrap = 0) =>
        /\ SwapPaid
        /\ pre.fee_min <= AppliedFee
        /\ pre.token_reserve <= pre.liquidity_target =>
               AppliedFee <= pre.fee_max

\* A swap on a reserve below the target kept a fee strictly between the
\* bounds.
C12_Witness ==
    /\ SwapPaid
    /\ pre.token_reserve < pre.liquidity_target
    /\ AppliedFee > pre.fee_min
    /\ AppliedFee < pre.fee_max
    /\ ret.v1 < Arg * pre.price

\* The last two calls were a deposit that minted claim tokens and a
\* withdrawal of exactly those tokens.
RoundTrip ==
    /\ prev.call.op = "add_liquidity"
    /\ prev.ret.kind = "Ok"
    /\ prev.ret.v1 > 0
    /\ call.op = "remove_liquidity"
    /\ Arg = prev.ret.v1

\* The amount of the deposit of a round trip.
Deposited == prev.call.args[1]

\* C13: when deposit(amount) mints m > 0 and withdraw(m) follows at once, the
\* withdraw succeeds and returns a token amount of at most amount.
C13_RoundTripBound ==
    RoundTrip => (ret.kind = "Ok" /\ ret.v1 <= Deposited)

\* A round trip on a pool that was swapped against returned less than was
\* deposited.
C13_Witness ==
    /\ RoundTrip
    /\ ret.kind = "Ok"
    /\ ret.v1 < Deposited
    /\ ret.v2 > 0

\* C14 as stated: on a pool that was never swapped against, deposit(amount)
\* followed at once by the withdrawal of the tokens it minted returns exactly
\* amount.
C14_RoundTripEqual ==
    RoundTrip => (ret.kind = "Ok" /\ ret.v1 = Deposited)

\* C14 as amended: the same, for a deposit into a pool whose lp_token_supply
\* was 0.
C14_RoundTripEqualFromEmpty ==
    (RoundTrip /\ prev.pre.lp_token_supply = 0) =>
        (ret.kind = "Ok" /\ ret.v1 = Deposited)

\* A round trip on an emptied pool returned the deposit whole.
C14_Witness ==
    /\ RoundTrip
    /\ prev.pre.lp_token_supply = 0
    /\ ret.kind = "Ok"
    /\ ret.v1 = Deposited
    /\ Deposited > 1

\* C15: a successful deposit into a pool whose lp_token_supply is 0, fresh or
\* drained after any history, returns amount and leaves token_reserve and
\* lp_token_supply equal to amount.
C15_FirstDeposit ==
    (call.op = "add_liquidity" /\ ret.kind = "Ok" /\ pre.lp_token_supply = 0) =>
        /\ ret.v1 = Arg
        /\ token_reserve = Arg
        /\ lp_token_supply = Arg

\* A deposit into a pool that the previous call drained, after swaps.
C15_Witness ==
    /\ call.op = "add_liquidity"
    /\ ret.kind = "Ok"
    /\ pre.lp_token_supply = 0
    /\ prev.call.op = "remove_liquidity"
    /\ prev.ret.kind = "Ok"
    /\ prev.ret.v2 > 0
    /\ lp_token_supply = Arg
    /\ Arg > 1

\* C16: the withdrawal of the whole lp_token_supply, when it is positive,
\* succeeds, returns the two reserves and leaves both reserves and the supply 0.
C16_FullDrain ==
    (call.op = "remove_liquidity" /\ pre.lp_token_supply > 0
         /\ Arg = pre.lp_token_supply) =>
        /\ ret = Ok(pre.token_reserve, pre.staked_token_reserve)
        /\ token_reserve = 0
        /\ staked_token_reserve = 0
        /\ lp_token_supply = 0

\* A drain of a pool holding both tokens, with a supply above both reserves.
C16_Witness ==
    /\ call.op = "remove_liquidity"
    /\ Arg = pre.lp_token_supply
    /\ pre.token_reserve > 0
    /\ pre.staked_token_reserve > 0
    /\ pre.lp_token_supply > pre.token_reserve
    /\ ret = Ok(pre.token_reserve, pre.staked_token_reserve)
    /\ lp_token_supply = 0

\* C17: the fee stays in token_reserve: across a successful swap token_reserve
\* falls by the net amount returned to the caller and by nothing else.
C17_FeeRetained ==
    (call.op = "swap" /\ ret.kind = "Ok" /\ ret.wrap = 0) =>
        pre.token_reserve = token_reserve + ret.v1

\* The gross amount and the fee of the last swap, as swap computes them.
Gross == Arg * pre.price

Fee == (Gross * AppliedFee) \div 100

\* C18: a swap of a positive amount whose gross amount token_reserve covers
\* computes a fee of at most the gross amount, and returns a net amount
\* between 0 and the gross amount, without a fault or a wrapped difference.
C18_FeeAtMostGross ==
    (call.op = "swap" /\ Arg > 0 /\ Gross <= pre.token_reserve) =>
        /\ Fee <= Gross
        /\ ret.kind = "Ok"
        /\ ret.wrap = 0
        /\ 0 <= ret.v1
        /\ ret.v1 <= Gross

\* C19: a withdrawal of a positive amount of at most lp_token_supply computes
\* amounts within the two reserves and succeeds: the second
\* InsufficientLiquidity check of remove_liquidity never fires.
C19_SecondGuardUnreachable ==
    (call.op = "remove_liquidity" /\ 0 < Arg /\ Arg <= pre.lp_token_supply) =>
        /\ F64DivTrunc(Arg * pre.token_reserve, pre.lp_token_supply)
               <= pre.token_reserve
        /\ F64DivTrunc(Arg * pre.staked_token_reserve, pre.lp_token_supply)
               <= pre.staked_token_reserve
        /\ ret.kind = "Ok"

\* A partial withdrawal from a pool holding both tokens succeeded.
C19_Witness ==
    /\ call.op = "remove_liquidity"
    /\ 0 < Arg
    /\ Arg < pre.lp_token_supply
    /\ pre.token_reserve > 0
    /\ pre.staked_token_reserve > 0
    /\ ret.kind = "Ok"
    /\ ret.v1 > 0
    /\ ret.v2 > 0

\* C20: a successful deposit or withdrawal does not lower the token_reserve
\* behind each claim token: token_reserve' * lp_token_supply >=
\* token_reserve * lp_token_supply'.
C20_NoDilution ==
    (call.op \in {"add_liquidity", "remove_liquidity"} /\ ret.kind = "Ok") =>
        token_reserve * pre.lp_token_supply >=
            pre.token_reserve * lp_token_supply

\* A withdrawal that truncated left the remaining claims strictly better
\* backed, on a pool that was swapped against.
C20_Witness ==
    /\ call.op = "remove_liquidity"
    /\ ret.kind = "Ok"
    /\ pre.staked_token_reserve > 0
    /\ lp_token_supply > 0
    /\ token_reserve * pre.lp_token_supply >
           pre.token_reserve * lp_token_supply

====
